---------------------------- MODULE Spec2Model ----------------------------
(***************************************************************************)
(* Filament Station v1.1 (src/filament_station_starter.py).                *)
(*                                                                         *)
(* The module models                                                       *)
(*   - the foreground Tk application: the pairing state of App, the SQLite *)
(*     tables spools and logs, the modal/non-modal dialogs of the manual   *)
(*     actions, and the poll_q timer loop that drains the scanner queue;   *)
(*   - the background QRScanner thread (debounce loop, stop flag, camera   *)
(*     capture);                                                           *)
(*   - the pure function classify_qr_payload.                              *)
(*                                                                         *)
(* Conventions.  A Python None / SQL NULL is the empty tuple <<>> and a    *)
(* present value x is the one-element tuple <<x>>; the (name, ts) tuple of *)
(* last_location_scan is the two-element tuple <<name, ts>>.  Python       *)
(* truthiness of such a value is "is not the empty tuple".  Times are      *)
(* integers: seconds for the foreground (time.time()), milliseconds for    *)
(* the scanner thread (its sleeps are 1.0 s and scan_interval_ms).         *)
(* The columns material, color (never written with a value by this         *)
(* program) and the ISO timestamp columns of the two tables are left out;  *)
(* nothing in the program reads them back into a decision.                 *)
(***************************************************************************)
EXTENDS Integers, Sequences, FiniteSets, TLC

VARIABLES
    clock,               \* time.time(), whole seconds (foreground specifications)
    cfg_locations,       \* CFG["locations"]: sequence of [qr, name]
    current_url,         \* App.current_url: None or <<url>>
    current_spool,       \* App.current_spool: None or <<row snapshot>>
    last_spool_scan_ts,  \* App.last_spool_scan_ts
    last_location_scan,  \* App.last_location_scan: None or <<name, ts>>
    var_status,          \* App.var_status
    spools,              \* table spools: sequence of rows, id = position
    logs,                \* table logs: sequence of rows, in insertion order
    dialogs,             \* stack of open dialogs of on_move / on_weigh (nested Tk event loops)
    q,                   \* App.q / QRScanner.q: queue of [kind, payload]
    poll_state,          \* "armed": after(200, poll_q) pending; "running": inside poll_q; "dead": not rescheduled
    error_shown,         \* a messagebox.showerror has been displayed
    loc_scan_moves,      \* history: the automatic moves made for the latest location scan,
                         \* each as the gap (seconds) between the two paired scans
    seen,                \* history: when the scanner published the spool scan behind
                         \* last_spool_scan_ts and the pending location scan
    pair_trigger,        \* history: which scan handler, if any, made the automatic move
                         \* of the latest scan: "" | "spool" | "location"
    sc_pc,               \* QRScanner.run: position of the thread ("start", "assign",
                         \* "check", "loop", "read", "decode", "put", "debounce",
                         \* "sleep", "done")
    sc_cap,              \* QRScanner.cap: None or <<"capture">>
    camera,              \* the capture device: "closed" | "open"
    stop_flag,           \* QRScanner._stop (threading.Event)
    stop_pc,             \* QRScanner.stop() called from the foreground: position
    last_val,            \* run(): last_val
    same_count,          \* run(): same_count
    sc_now,              \* scanner-side clock, milliseconds
    sc_wake,             \* end of the current time.sleep of the thread, milliseconds
    poll_cur,            \* run(): ret, frame of the latest cap.read(), as what the frame
                         \* decodes to ("-" before the first read)
    poll_prev,           \* history: result of the poll before it
    dec_cur,             \* history: value of the latest poll that decoded a code
    dec_prev,            \* history: value of the decoded poll before it
    last_emit,           \* history: None or <<time of the latest q.put(("qr", ..))>>
    after_stop,          \* history: frame reads and qr events of the thread made while
                         \* the stop flag was set
    cl_payload,          \* classifier specification: the payload under test
    cl_result            \* classifier specification: the result of classify_qr_payload

appvars == <<current_url, current_spool, last_spool_scan_ts, last_location_scan,
             var_status, spools, logs, loc_scan_moves, seen, pair_trigger>>
scvars  == <<sc_pc, sc_cap, camera, stop_flag, stop_pc, last_val, same_count,
             sc_now, sc_wake, poll_cur, poll_prev, dec_cur, dec_prev, last_emit,
             after_stop>>
clvars  == <<cl_payload, cl_result>>
vars    == <<clock, cfg_locations, appvars, dialogs, q, poll_state, error_shown,
             scvars, clvars>>

None == <<>>
Some(x) == <<x>>

(***************************************************************************)
(* Bounds of the model.                                                    *)
(***************************************************************************)
\* CFG["pair_window_seconds"]: a configured value (the default is 10); the
\* clock runs one second past it, so both sides of the boundary occur
PairWindow == 1
\* rows the logs table may hold; a handler that would exceed it is not started
MaxLogs == 5
\* depth of nested dialogs (nested Tk event loops)
MaxDialogs == 1
\* entries the scanner queue may hold
MaxQueue == 1
\* configured locations drawn for the classifier specification
MaxLocs == 2
\* polling intervals of scanner time that the scanner specification follows
MaxPolls == 8

MaxTime == PairWindow + 1

(***************************************************************************)
(* Configuration and inputs.                                               *)
(***************************************************************************)
\* two of the entries of DEFAULT_CONFIG["locations"]
DefaultLocations ==
    << [qr |-> "fs://loc/ams-1", name |-> "AMS Slot 1"],
       [qr |-> "fs://loc/dryer", name |-> "Dryer"] >>

\* CFG.get("pair_window_seconds", 10)
pair_window_seconds == PairWindow

SpoolUrls == {"fs://spool/abc-123", "https://3dfp.example/s/pla-red/"}
LocationQrs == {"fs://loc/ams-1", "fs://loc/dryer"}
\* what the camera can decode
Payloads == SpoolUrls \cup LocationQrs
\* what the operator may paste into the Manual URL dialog
ManualInputs == {"fs://spool/abc-123"}
\* on_move: the entries the operator picks among the listed choices; None is Cancel
MoveChoices == {None, Some("Other")}
\* on_weigh: askfloat results; None is Cancel
WeighInputs == {None, Some(250)}

(***************************************************************************)
(* QR helpers.                                                             *)
(***************************************************************************)
\* str.strip(), tabulated for the strings of the model
Strip(raw) == IF raw = "fs://spool/abc-123 " THEN "fs://spool/abc-123" ELSE raw

RECURSIVE FirstMatch(_, _, _)
\* the loop of classify_qr_payload from position i on
FirstMatch(payload, locs, i) ==
    IF i > Len(locs) THEN <<"spool", payload>>
    ELSE IF payload = locs[i].qr THEN <<"location", locs[i].name>>
    ELSE FirstMatch(payload, locs, i + 1)

\* variant of classify_qr_payload: the last matching location wins
classify_qr_payload_last(payload) ==
    LET m == {i \in 1..Len(cfg_locations) : payload = cfg_locations[i].qr}
    IN  IF m = {} THEN <<"spool", payload>>
        ELSE <<"location",
               cfg_locations[CHOOSE i \in m : \A j \in m : j <= i].name>>

\* classify_qr_payload(payload), reading the module-level CFG
classify_qr_payload(payload) == FirstMatch(payload, cfg_locations, 1)


(***************************************************************************)
(* Execution context of one foreground handler.  A handler is evaluated on *)
(* a record s holding the App fields and the two tables, together with     *)
(*   fail_at : which database call of this handler raises (0: none),       *)
(*   calls   : database calls made so far by this handler,                 *)
(*   raised  : an exception is propagating (the rest of the handler is     *)
(*             skipped),                                                   *)
(*   pair_gap: history, the gap measured by the handler's pairing check,   *)
(*   obs     : history, the time at which the event being handled was      *)
(*             published (the time of the call, for a handler that is not  *)
(*             run on a queued event).                                     *)
(***************************************************************************)
Ctx(f) ==
    [ current_url |-> current_url, current_spool |-> current_spool,
      last_spool_scan_ts |-> last_spool_scan_ts,
      last_location_scan |-> last_location_scan,
      var_status |-> var_status, spools |-> spools, logs |-> logs,
      loc_scan_moves |-> loc_scan_moves, seen |-> seen,
      pair_trigger |-> pair_trigger,
      fail_at |-> f, calls |-> 0, raised |-> FALSE, pair_gap |-> 0, obs |-> clock ]

\* the handler's final context becomes the next state of the application
Commit(s) ==
    /\ current_url' = s.current_url
    /\ current_spool' = s.current_spool
    /\ last_spool_scan_ts' = s.last_spool_scan_ts
    /\ last_location_scan' = s.last_location_scan
    /\ var_status' = s.var_status
    /\ spools' = s.spools
    /\ logs' = s.logs
    /\ loc_scan_moves' = s.loc_scan_moves
    /\ seen' = s.seen
    /\ pair_trigger' = s.pair_trigger

\* get_db(): one more database call; it raises when it is the failing one
Db(s) == [s EXCEPT !.calls = @ + 1, !.raised = (s.calls + 1 = s.fail_at)]

(***************************************************************************)
(* Database helpers.                                                       *)
(***************************************************************************)
\* SELECT * FROM spools WHERE url = ? ; fetchone()   (url is UNIQUE)
get_spool_by_url(tbl, url) ==
    LET m == {i \in 1..Len(tbl) : tbl[i].url = url}
    IN  IF m = {} THEN None ELSE Some(tbl[CHOOSE i \in m : TRUE])

\* truthiness of a value that is None or a (non-empty) string
Truthy(v) == v # None /\ v # Some("")

\* COALESCE(?, column)
Coalesce(v, column) == IF v # None THEN v ELSE column

\* upsert_spool(url, name=name): the table after the call
upsert_spool(tbl, url, name) ==
    LET row == get_spool_by_url(tbl, url)
    IN  IF row = None
        THEN Append(tbl, [id |-> Len(tbl) + 1, url |-> url, name |-> name,
                          location |-> None, last_weight_g |-> None])
        ELSE IF Truthy(name)
             THEN [tbl EXCEPT ![row[1].id].name = Coalesce(name, @)]
             ELSE tbl

\* variant of update_weight: the UPDATE has no WHERE clause
update_weight_every_row(s, spool_id, weight_g) ==
    [s EXCEPT
       !.spools = [i \in DOMAIN s.spools |->
                     [s.spools[i] EXCEPT !.last_weight_g = Some(weight_g)]],
       !.logs = Append(@, [spool_id |-> spool_id, action |-> "weigh",
                           weight_g |-> Some(weight_g), location |-> None,
                           note |-> None])]

\* update_weight(spool_id, weight_g): UPDATE spools ..; INSERT INTO logs .. 'weigh'
update_weight(s, spool_id, weight_g) ==
    [s EXCEPT
       !.spools = [i \in DOMAIN s.spools |->
                     IF s.spools[i].id = spool_id
                     THEN [s.spools[i] EXCEPT !.last_weight_g = Some(weight_g)]
                     ELSE s.spools[i]],
       !.logs = Append(@, [spool_id |-> spool_id, action |-> "weigh",
                           weight_g |-> Some(weight_g), location |-> None,
                           note |-> None])]

\* update_location(spool_id, location): UPDATE spools ..; INSERT INTO logs .. 'move'
update_location(s, spool_id, location) ==
    [s EXCEPT
       !.spools = [i \in DOMAIN s.spools |->
                     IF s.spools[i].id = spool_id
                     THEN [s.spools[i] EXCEPT !.location = Some(location)]
                     ELSE s.spools[i]],
       !.logs = Append(@, [spool_id |-> spool_id, action |-> "move",
                           weight_g |-> None, location |-> Some(location),
                           note |-> None])]

\* the default name of handle_spool_scan:
\*   url.rstrip("/").split("/")[-1].replace("-", " ").title()
\* tabulated for the URLs of the model
GuessName(url) ==
    CASE url = "fs://spool/abc-123" -> "Abc 123"
      [] url = "https://3dfp.example/s/pla-red/" -> "Pla Red"
      [] url = "fs://loc/ams-1" -> "Ams 1"
      [] url = "fs://loc/dryer" -> "Dryer"

(***************************************************************************)
(* Handlers of App.                                                        *)
(***************************************************************************)
\* App.log_action(action, weight_g, location, note)
log_action(s, action, weight_g, location, note) ==
    IF s.current_spool = None THEN s
    ELSE LET a == Db(s)
         IN  IF a.raised THEN a
             ELSE [a EXCEPT !.logs =
                     Append(@, [spool_id |-> a.current_spool[1].id,
                                action |-> action, weight_g |-> weight_g,
                                location |-> location, note |-> note])]

\* variant of ClearLocationScan: the consumed location scan is kept
ClearLocationScan_kept(s) == s

\* variant of ClearLocationScan: the spool side of the pairing is consumed
\* too (the time of the spool scan is put back before any window)
ClearLocationScan_and_spool(s) ==
    [s EXCEPT !.last_location_scan = None, !.seen.location = 0,
              !.last_spool_scan_ts = 0 - (pair_window_seconds + 1)]

\* line 366: clear the last_location_scan to avoid repeated moves
ClearLocationScan(s) == [s EXCEPT !.last_location_scan = None, !.seen.location = 0]

\* App.apply_location_move(loc_name)
apply_location_move(s, loc_name) ==
    IF s.current_spool = None THEN s
    ELSE
    LET a == Db(s)                                   \* update_location
        b == [update_location(a, a.current_spool[1].id, loc_name)
                EXCEPT !.loc_scan_moves = Append(@, a.pair_gap)]
        c == Db(b)                                   \* get_spool_by_url
        d == [c EXCEPT !.current_spool = get_spool_by_url(c.spools, c.current_spool[1].url),
                       !.var_status = <<"Moved to: ", loc_name>>]
        e == log_action(d, "move", None, Some(loc_name), None)
    IN  IF a.raised THEN a
        ELSE IF c.raised THEN c
        ELSE IF e.raised THEN e
        ELSE ClearLocationScan(e)

\* variant of InPairWindow: exclusive boundary
InPairWindow_exclusive(now, ts) == (now - ts) < pair_window_seconds

\* the pairing test of both scan handlers: (now - ts) <= pair_window_seconds
InPairWindow(now, ts) == (now - ts) <= pair_window_seconds

\* variant of ResolveSpool: a row is inserted at every scan, without lookup
ResolveSpool_reinsert(s, url, now) ==
    LET s1 == [s EXCEPT !.current_url = Some(url)]
        b  == Db(s1)
        b1 == [b EXCEPT !.spools =
                 Append(@, [id |-> Len(@) + 1, url |-> url,
                            name |-> Some(GuessName(url)),
                            location |-> None, last_weight_g |-> None])]
    IN  IF b.raised THEN b
        ELSE [b1 EXCEPT !.current_spool = Some(b1.spools[Len(b1.spools)]),
                        !.last_spool_scan_ts = now,
                        !.seen.spool = b1.obs]

\* App.handle_spool_scan, lines 331-338: resolve or create the record
ResolveSpool(s, url, now) ==
    LET s1 == [s EXCEPT !.current_url = Some(url)]
        a  == Db(s1)                                 \* get_spool_by_url
        found == get_spool_by_url(a.spools, url)
        b  == Db(a)                                  \* upsert_spool
        b1 == [b EXCEPT !.spools = upsert_spool(@, url, Some(GuessName(url)))]
        c  == Db(b1)                                 \* get_spool_by_url
        done(x) == [x EXCEPT !.current_spool = get_spool_by_url(x.spools, url),
                             !.last_spool_scan_ts = now,
                             !.seen.spool = x.obs]
    IN  IF a.raised THEN a
        ELSE IF found # None THEN done(a)
        ELSE IF b.raised THEN b
        ELSE IF c.raised THEN c
        ELSE done(c)

\* variant of handle_spool_scan: the pairing check is made before the scanned
\* spool becomes the current spool
handle_spool_scan_pair_first(s, url, now) ==
    LET p == IF s.last_location_scan # None
                /\ InPairWindow(now, s.last_location_scan[2])
             THEN apply_location_move(
                      [s EXCEPT !.pair_gap = now - s.last_location_scan[2],
                                !.pair_trigger = "spool"],
                      s.last_location_scan[1])
             ELSE [s EXCEPT !.pair_trigger = ""]
        r == ResolveSpool(p, url, now)
        l == log_action(r, "scan", None, None, Some(<<"Scanned spool: ", url>>))
    IN  IF p.raised THEN p
        ELSE IF r.raised THEN r
        ELSE IF l.raised THEN l
        ELSE [l EXCEPT !.var_status = <<"Spool scanned. (Scan a location to move it.)">>]

\* App.handle_spool_scan(url, now)
handle_spool_scan(s, url, now) ==
    LET r == ResolveSpool([s EXCEPT !.pair_trigger = ""], url, now)
        l == log_action(r, "scan", None, None, Some(<<"Scanned spool: ", url>>))
        m == [l EXCEPT !.var_status = <<"Spool scanned. (Scan a location to move it.)">>]
    IN  IF r.raised THEN r
        ELSE IF l.raised THEN l
        ELSE IF m.last_location_scan # None
                /\ InPairWindow(now, m.last_location_scan[2])
             THEN apply_location_move(
                      [m EXCEPT !.pair_gap = now - m.last_location_scan[2],
                                !.pair_trigger = "spool"],
                      m.last_location_scan[1])
             ELSE m

\* variant of handle_location_scan: the scan is shown but not recorded
handle_location_scan_unrecorded(s, loc_name, now) ==
    LET a == [s EXCEPT !.var_status = <<"Location scanned: ", loc_name>>,
                       !.loc_scan_moves = <<>>,
                       !.pair_gap = now - s.last_spool_scan_ts]
    IN  IF a.current_spool # None /\ InPairWindow(now, a.last_spool_scan_ts)
        THEN apply_location_move(a, loc_name)
        ELSE a

\* App.handle_location_scan(loc_name, now)
handle_location_scan(s, loc_name, now) ==
    LET a == [s EXCEPT !.last_location_scan = <<loc_name, now>>,
                       !.seen.location = s.obs,
                       !.var_status = <<"Location scanned: ", loc_name>>,
                       !.loc_scan_moves = <<>>,
                       !.pair_gap = now - s.last_spool_scan_ts,
                       !.pair_trigger = ""]
    IN  IF a.current_spool # None /\ InPairWindow(now, a.last_spool_scan_ts)
        THEN apply_location_move([a EXCEPT !.pair_trigger = "location"], loc_name)
        ELSE a

\* App.on_qr(payload), with now = time.time()
on_qr(s, payload, now) ==
    LET c == classify_qr_payload(payload)
    IN  IF c[1] = "spool" THEN handle_spool_scan(s, c[2], now)
        ELSE handle_location_scan(s, c[2], now)


(***************************************************************************)
(* Foreground actions.  The Tk main thread runs one callback at a time;    *)
(* a callback that opens a dialog (wait_window, simpledialog) runs a       *)
(* nested event loop in which timer callbacks (poll_q) and, unless the     *)
(* dialog holds the grab, button callbacks are dispatched.                 *)
(***************************************************************************)
TopDialog == dialogs[Len(dialogs)]

\* the main thread is in an event loop (not inside poll_q)
InEventLoop == poll_state # "running"

\* the buttons of the main window react: no simpledialog (grab_set) is open
ButtonsEnabled ==
    InEventLoop /\ (IF dialogs = <<>> THEN TRUE ELSE TopDialog.kind # "weigh")

scanner_unchanged == UNCHANGED scvars
classifier_unchanged == UNCHANGED clvars

\* time passes
Tick ==
    /\ clock < MaxTime
    /\ clock' = clock + 1
    /\ UNCHANGED <<cfg_locations, appvars, dialogs, q, poll_state, error_shown>>
    /\ scanner_unchanged /\ classifier_unchanged

\* on_qr(payload) dispatched by the event loop; f: the failing database call
OnQr(payload, f) ==
    LET r == on_qr(Ctx(f), payload, clock)
    IN  /\ InEventLoop
        /\ Len(r.logs) <= MaxLogs
        /\ Commit(r)
        /\ UNCHANGED <<clock, cfg_locations, dialogs, q, poll_state, error_shown>>
        /\ scanner_unchanged /\ classifier_unchanged

\* App.manual_url: askstring returned url (non-empty); no classification
ManualUrl(url, f) ==
    LET r == handle_spool_scan(Ctx(f), Strip(url), clock)
    IN  /\ ButtonsEnabled
        /\ Len(r.logs) <= MaxLogs
        /\ Commit(r)
        /\ UNCHANGED <<clock, cfg_locations, dialogs, q, poll_state, error_shown>>
        /\ scanner_unchanged /\ classifier_unchanged

\* App.on_move up to wait_window(dlg): lines 416-421
OnMove ==
    /\ ButtonsEnabled
    /\ IF current_spool = None
       THEN UNCHANGED dialogs                        \* showinfo("No spool")
       ELSE /\ Len(dialogs) < MaxDialogs
            /\ dialogs' = Append(dialogs, [kind |-> "move",
                                           spool |-> current_spool[1].id])
    /\ UNCHANGED <<clock, cfg_locations, appvars, q, poll_state, error_shown>>
    /\ scanner_unchanged /\ classifier_unchanged

\* App.on_move after wait_window(dlg): lines 422-426
on_move_done(s, choice) ==
    IF ~Truthy(choice) THEN s
    ELSE
    LET a == Db(s)                                   \* update_location
        b == update_location(a, a.current_spool[1].id, choice[1])
        c == Db(b)                                   \* get_spool_by_url
    IN  IF a.raised THEN a
        ELSE IF c.raised THEN c
        ELSE [c EXCEPT !.current_spool = get_spool_by_url(c.spools, c.current_spool[1].url),
                       !.var_status = <<"Moved to: ", choice[1]>>]

\* the ChoiceDialog is closed with dlg.choice = choice
MoveDialogDone(choice, f) ==
    LET r == on_move_done(Ctx(f), choice)
    IN  /\ InEventLoop
        /\ dialogs # <<>> /\ TopDialog.kind = "move"
        /\ Len(r.logs) <= MaxLogs
        /\ dialogs' = SubSeq(dialogs, 1, Len(dialogs) - 1)
        /\ Commit(r)
        /\ UNCHANGED <<clock, cfg_locations, q, poll_state, error_shown>>
        /\ scanner_unchanged /\ classifier_unchanged

\* App.on_weigh up to simpledialog.askfloat: lines 401-405
OnWeigh ==
    /\ ButtonsEnabled
    /\ IF current_spool = None
       THEN UNCHANGED dialogs                        \* showinfo("No spool")
       ELSE /\ Len(dialogs) < MaxDialogs
            /\ dialogs' = Append(dialogs, [kind |-> "weigh",
                                           spool |-> current_spool[1].id])
    /\ UNCHANGED <<clock, cfg_locations, appvars, q, poll_state, error_shown>>
    /\ scanner_unchanged /\ classifier_unchanged

\* App.on_weigh after askfloat returned val: lines 406-411
on_weigh_done(s, val) ==
    IF val = None THEN s
    ELSE
    LET a == Db(s)                                   \* update_weight
        b == update_weight(a, a.current_spool[1].id, val[1])
        c == Db(b)                                   \* get_spool_by_url
    IN  IF a.raised THEN a
        ELSE IF c.raised THEN c
        ELSE [c EXCEPT !.current_spool = get_spool_by_url(c.spools, c.current_spool[1].url),
                       !.var_status = <<"Weight updated.">>]

\* the askfloat dialog returns val; an exception is shown by showerror (line 413)
WeighDialogDone(val, f) ==
    LET r == on_weigh_done(Ctx(f), val)
    IN  /\ InEventLoop
        /\ dialogs # <<>> /\ TopDialog.kind = "weigh"
        /\ Len(r.logs) <= MaxLogs
        /\ dialogs' = SubSeq(dialogs, 1, Len(dialogs) - 1)
        /\ Commit(r)
        /\ error_shown' = (error_shown \/ r.raised)
        /\ UNCHANGED <<clock, cfg_locations, q, poll_state>>
        /\ scanner_unchanged /\ classifier_unchanged

(***************************************************************************)
(* Initial states.                                                         *)
(***************************************************************************)
\* the tables right after init_db() created the database file
EmptyTable == <<>>

\* App.__init__
AppInit ==
    /\ current_url = None
    /\ current_spool = None
    /\ last_spool_scan_ts = 0
    /\ last_location_scan = None
    /\ var_status = <<"Ready. Scan a spool.">>
    /\ spools = EmptyTable
    /\ logs = EmptyTable
    /\ dialogs = <<>>
    /\ q = <<>>
    /\ poll_state = "armed"
    /\ error_shown = FALSE
    /\ loc_scan_moves = <<>>
    /\ seen = [spool |-> 0, location |-> 0]
    /\ pair_trigger = ""

\* QRScanner.__init__
ScannerInit ==
    /\ sc_pc = "start"
    /\ sc_cap = None
    /\ camera = "closed"
    /\ stop_flag = FALSE
    /\ stop_pc = "idle"
    /\ last_val = None
    /\ same_count = 0
    /\ sc_now = 0
    /\ sc_wake = 0
    /\ poll_cur = "-"
    /\ poll_prev = "-"
    /\ dec_cur = None
    /\ dec_prev = None
    /\ last_emit = None
    /\ after_stop = [reads |-> 0, emits |-> 0]

ClassifierIdle ==
    /\ cl_payload = ""
    /\ cl_result = None

Init ==
    /\ clock = 0
    /\ cfg_locations = DefaultLocations
    /\ AppInit
    /\ ScannerInit
    /\ ClassifierIdle

(***************************************************************************)
(* The pairing state machine driven by every order of handler calls the    *)
(* event loop can make; no database call fails.                            *)
(***************************************************************************)
Next ==
    \/ Tick
    \/ \E p \in Payloads : OnQr(p, 0)
    \/ \E u \in ManualInputs : ManualUrl(u, 0)
    \/ OnMove
    \/ \E c \in MoveChoices : MoveDialogDone(c, 0)
    \/ OnWeigh
    \/ \E v \in WeighInputs : WeighDialogDone(v, 0)

Spec == Init /\ [][Next]_vars


(***************************************************************************)
(* Properties of the pairing state machine (specification Spec).           *)
(***************************************************************************)
\* number of 'move' rows of a logs table for one spool and one location
MoveRowsFor(tbl, spool_id, loc) ==
    Cardinality({i \in 1..Len(tbl) :
                   /\ tbl[i].action = "move"
                   /\ tbl[i].spool_id = spool_id
                   /\ tbl[i].location = Some(loc)})

MoveRows(tbl) == Cardinality({i \in 1..Len(tbl) : tbl[i].action = "move"})

\* this step wrote a move to the store
Moved == MoveRows(logs') > MoveRows(logs)

\* this step handled a scanned or pasted spool identifier
SpoolScanStep(url) == OnQr(url, 0) \/ (url \in ManualInputs /\ ManualUrl(url, 0))

\* C1: the pairing window is inclusive in either scan order.  A location scan
\* handled at clock, with a current spool last scanned at ts <= clock, moves
\* the spool iff clock - ts <= W; a spool scan handled at clock, with a pending
\* location scan made at tl <= clock, moves the spool iff clock - tl <= W.
C1_PairingWindowInclusive ==
    [][ /\ \A p \in LocationQrs :
             ( /\ current_spool # None /\ last_spool_scan_ts <= clock
               /\ UNCHANGED <<clock, dialogs, current_url>>
               /\ OnQr(p, 0) )
               => (Moved <=> (clock - last_spool_scan_ts <= PairWindow))
        /\ \A u \in SpoolUrls :
             ( /\ last_location_scan # None /\ last_location_scan[2] <= clock
               /\ current_url' = Some(u)
               /\ SpoolScanStep(u) )
               => (Moved <=> (clock - last_location_scan[2] <= PairWindow))
      ]_vars

\* a move was made for two scans exactly W apart
C1_Witness == loc_scan_moves = <<PairWindow>>

\* C2: a location scan triggers at most one automatic move; once it has
\* triggered one, last_location_scan is unset.
C2_OneMovePerLocationScan ==
    /\ Len(loc_scan_moves) <= 1
    /\ loc_scan_moves # <<>> => last_location_scan = None

\* a spool scan was handled after the automatic move, still inside the window
\* of the consumed location scan (every scan so far is at most W old)
C2_Witness ==
    /\ clock <= PairWindow
    /\ loc_scan_moves # <<>>
    /\ Len(logs) >= 4
    /\ logs[Len(logs)].action = "scan"
    /\ logs[Len(logs) - 1].action = "move"

\* C3: an automatic move sets the current spool's stored location to the
\* scanned location and appends exactly one 'move' row with that location for
\* that spool.
C3_AutoMoveLogsOnce ==
    [][ \A p \in Payloads :
          (OnQr(p, 0) /\ Moved) =>
             LET dest == IF p \in LocationQrs THEN classify_qr_payload(p)[2]
                         ELSE last_location_scan[1]
                 id == current_spool'[1].id
             IN  /\ spools'[id].location = Some(dest)
                 /\ MoveRowsFor(logs', id, dest) = MoveRowsFor(logs, id, dest) + 1
      ]_vars

\* C4: while no spool has been scanned, location scans, manual move requests
\* and manual weigh requests leave the store unchanged; Move is a no-op; a
\* location scan records last_location_scan and sets the status text only.
C4_NoSpoolNoStoreChange ==
    [][ current_spool = None =>
          /\ (\A u \in Payloads \cup ManualInputs : ~SpoolScanStep(u))
                => UNCHANGED <<spools, logs>>
          /\ \A p \in LocationQrs :
                /\ apply_location_move(Ctx(0), classify_qr_payload(p)[2]) = Ctx(0)
                /\ OnQr(p, 0) =>
                     /\ last_location_scan' = <<classify_qr_payload(p)[2], clock>>
                     /\ var_status' = <<"Location scanned: ", classify_qr_payload(p)[2]>>
                     /\ UNCHANGED <<current_url, current_spool, last_spool_scan_ts,
                                    spools, logs, dialogs>>
          /\ (OnMove \/ OnWeigh) => UNCHANGED <<appvars, dialogs>>
      ]_vars

\* a location was scanned with no spool ever scanned
C4_Witness ==
    /\ current_spool = None
    /\ last_location_scan # None
    /\ var_status[1] = "Location scanned: "
    /\ spools = <<>> /\ logs = <<>>

\* C8: state transitions are serialized: while a manual move or weigh is in
\* progress no scan event is handled, and the spool a manual action updates is
\* the one that was current when the action was invoked.
C8_ManualActionsSerialized ==
    [][ /\ (dialogs # <<>> /\ dialogs' = dialogs) => UNCHANGED appvars
        /\ (dialogs # <<>> /\ Len(dialogs') < Len(dialogs) /\ Len(logs') > Len(logs))
              => logs'[Len(logs')].spool_id = TopDialog.spool
      ]_vars

\* the spool identifiers scanned so far, read off the 'scan' rows of the log
ScannedUrls ==
    {logs[i].note[1][2] : i \in {j \in 1..Len(logs) : logs[j].action = "scan"}}

\* positions of the records of the table whose url is u
RecordsOf(tbl, u) == {i \in 1..Len(tbl) : tbl[i].url = u}

\* C12: the store holds exactly one spool record per scanned identifier and
\* none for the others.  The first scan of an identifier appends one record
\* without weight and without location (other than the one a pairing completed
\* by this very scan gives it); a later scan appends none and changes no
\* weight and no location (again except by a pairing it completes); no step
\* removes or renames a record.
C12_OneRecordPerScannedSpool ==
    /\ [](\A u \in Payloads :
            Cardinality(RecordsOf(spools, u)) = IF u \in ScannedUrls THEN 1 ELSE 0)
    /\ [][ /\ Len(spools') >= Len(spools)
           /\ \A i \in 1..Len(spools) : spools'[i].url = spools[i].url
           /\ \A u \in SpoolUrls : (current_url' = Some(u) /\ SpoolScanStep(u)) =>
                 LET paired == IF Moved THEN Some(last_location_scan[1]) ELSE None
                     n == Len(spools)
                 IN  IF RecordsOf(spools, u) = {}
                     THEN /\ Len(spools') = n + 1
                          /\ spools'[n + 1].url = u
                          /\ spools'[n + 1].last_weight_g = None
                          /\ spools'[n + 1].location = paired
                          /\ \A i \in 1..n : spools'[i] = spools[i]
                     ELSE /\ Len(spools') = n
                          /\ \A i \in 1..n :
                                /\ spools'[i].last_weight_g = spools[i].last_weight_g
                                /\ spools'[i].location =
                                      IF spools[i].url = u /\ Moved
                                      THEN paired ELSE spools[i].location
         ]_vars

\* a spool that has a weight and a location was scanned again, after a
\* second spool had been registered
C12_Witness ==
    /\ Len(spools) = 2
    /\ spools[1].last_weight_g # None
    /\ spools[2].location # None
    /\ \E i \in 1..Len(logs) :
          /\ i > 1
          /\ logs[i].action = "scan"
          /\ \E j \in 1..(i - 1) :
                logs[j].action \in {"weigh", "move"} /\ logs[j].spool_id = logs[i].spool_id

\* C13: a manual weigh of g grams sets the last weight of the current spool
\* to g and appends one 'weigh' row for it; the location of that spool, every
\* other spool record, last_spool_scan_ts and last_location_scan stay as they
\* were.
C13_WeighFrame ==
    [][ \A v \in WeighInputs :
          (v # None /\ WeighDialogDone(v, 0)) =>
             LET id == current_spool[1].id
             IN  /\ spools' = [spools EXCEPT ![id].last_weight_g = v]
                 /\ logs' = Append(logs, [spool_id |-> id, action |-> "weigh",
                                          weight_g |-> v, location |-> None,
                                          note |-> None])
                 /\ current_spool' = Some(spools'[id])
                 /\ UNCHANGED <<last_spool_scan_ts, last_location_scan>>
      ]_vars

\* a spool that has a location was weighed while a second record exists and
\* a location scan is pending
C13_Witness ==
    /\ var_status = <<"Weight updated.">>
    /\ Len(spools) = 2
    /\ last_location_scan # None
    /\ logs # <<>>
    /\ logs[Len(logs)].action = "weigh"
    /\ current_spool # None
    /\ current_spool[1].id = logs[Len(logs)].spool_id
    /\ current_spool[1].location # None
    /\ current_spool[1].last_weight_g = Some(250)

\* C14: the manual move performs the Move operation of the automatic pairing,
\* its last step included: after a manual move to a chosen location,
\* last_location_scan is unset.  Stated for the case that matters: a location
\* scan that is pending and still inside the pairing window when the manual
\* move is made (a spool scan made right after would be paired with it).
C14_ManualMoveClearsLocationScan ==
    [][ \A c \in MoveChoices :
          ( /\ Truthy(c) /\ MoveDialogDone(c, 0)
            /\ last_location_scan # None
            /\ InPairWindow(clock, last_location_scan[2]) )
          => last_location_scan' = None
      ]_vars

\* C15: a move leaves the spool side of the pairing in place.  When the
\* latest write to the store is a move of the current spool (no spool scan
\* since) and a location is scanned within W of the spool scan, the spool is
\* moved again, to the location just scanned; a step that is not a spool scan
\* does not change last_spool_scan_ts.
C15_SecondLocationScanMovesAgain ==
    [][ /\ \A p \in LocationQrs :
             ( /\ current_spool # None
               /\ logs # <<>>
               /\ logs[Len(logs)].action = "move"
               /\ logs[Len(logs)].spool_id = current_spool[1].id
               /\ last_spool_scan_ts <= clock
               /\ clock - last_spool_scan_ts <= PairWindow
               /\ OnQr(p, 0) )
             => /\ Moved
                /\ spools'[current_spool[1].id].location = Some(classify_qr_payload(p)[2])
                /\ current_spool'[1].id = current_spool[1].id
        /\ last_spool_scan_ts' # last_spool_scan_ts
              => \E u \in SpoolUrls : SpoolScanStep(u)
      ]_vars

\* one spool scan followed by two automatic moves, to two different
\* locations, all within W of the spool scan
C15_Witness ==
    /\ Len(logs) = 5
    /\ logs[1].action = "scan"
    /\ \A i \in 2..5 : logs[i].action = "move" /\ logs[i].spool_id = logs[1].spool_id
    /\ logs[2].location # logs[5].location
    /\ logs[2].location \in {Some("AMS Slot 1"), Some("Dryer")}
    /\ logs[5].location \in {Some("AMS Slot 1"), Some("Dryer")}
    /\ clock - last_spool_scan_ts <= PairWindow
    /\ spools[logs[1].spool_id].location = logs[5].location

\* C18: when a spool scan completes a pairing, the spool moved is the one just
\* scanned, which is the current spool from then on, and it is moved to the
\* name of the pending location scan; every move row written is for that
\* spool and no other spool record changes.
C18_SpoolScanMovesScannedSpool ==
    [][ \A u \in SpoolUrls :
          (Moved /\ SpoolScanStep(u)) =>
             /\ current_spool' # None
             /\ current_spool'[1].url = u
             /\ spools'[current_spool'[1].id].url = u
             /\ spools'[current_spool'[1].id].location = Some(last_location_scan[1])
             /\ current_spool'[1].location = Some(last_location_scan[1])
             /\ \A i \in 1..Len(spools) : spools[i].url # u => spools'[i] = spools[i]
             /\ \A i \in (Len(logs) + 1)..Len(logs') :
                   logs'[i].spool_id = current_spool'[1].id
      ]_vars

\* with another spool current, a spool scan has completed a pairing: the
\* scanned spool has the location, the previously current one has none
C18_Witness ==
    /\ pair_trigger = "spool"
    /\ Len(spools) = 2
    /\ current_spool # None
    /\ current_spool[1].id = 2
    /\ spools[2].location # None
    /\ spools[1].location = None
    /\ logs[1].spool_id = 1
    /\ last_location_scan = None


(***************************************************************************)
(* The two entry points that can create a spool record, camera scans and   *)
(* the Manual URL dialog, with any text pasted into the dialog.            *)
(***************************************************************************)
\* texts pasted into the Manual URL dialog: a spool URL followed by a blank,
\* and the QR payload of a configured location
PastedInputs == {"fs://spool/abc-123 ", "fs://loc/dryer"}

NextEntry ==
    \/ Tick
    \/ \E p \in Payloads : OnQr(p, 0)
    \/ \E u \in PastedInputs : ManualUrl(u, 0)

SpecEntry == Init /\ [][NextEntry]_vars

\* C19: no spool record has an identifier that is the QR payload of a
\* configured location.
C19_NoSpoolRecordForLocationQr ==
    \A i \in 1..Len(spools) : \A j \in 1..Len(cfg_locations) :
        spools[i].url # cfg_locations[j].qr

(***************************************************************************)
(* The classifier on its own: any configured location list of up to        *)
(* MaxLocs entries (duplicated payloads and names included), any payload.  *)
(***************************************************************************)
CfgQrs == {"fs://loc/dryer", "fs://loc/ams-1"}
CfgNames == {"Dryer", "AMS Slot 1"}
ClassifyPayloads == CfgQrs \cup {"fs://spool/abc-123"}

LocationLists ==
    UNION { [1..n -> [qr : CfgQrs, name : CfgNames]] : n \in 0..MaxLocs }

\* on_qr, line 322: qtype, value = classify_qr_payload(payload)
ClassifyCall ==
    /\ cl_result = None
    /\ cl_result' = Some(classify_qr_payload(cl_payload))
    /\ UNCHANGED <<cl_payload, clock, cfg_locations, appvars, dialogs, q,
                   poll_state, error_shown>>
    /\ scanner_unchanged

\* the next payload to classify
ClassifyNext(payload) ==
    /\ cl_result # None
    /\ cl_payload' = payload
    /\ cl_result' = None
    /\ UNCHANGED <<clock, cfg_locations, appvars, dialogs, q, poll_state, error_shown>>
    /\ scanner_unchanged

InitClassify ==
    /\ clock = 0
    /\ cfg_locations \in LocationLists
    /\ AppInit
    /\ ScannerInit
    /\ cl_payload \in ClassifyPayloads
    /\ cl_result = None

NextClassify ==
    \/ ClassifyCall
    \/ \E p \in ClassifyPayloads : ClassifyNext(p)

SpecClassify == InitClassify /\ [][NextClassify]_vars

\* positions of the configured locations whose qr equals the payload
Matches(payload) == {i \in 1..Len(cfg_locations) : cfg_locations[i].qr = payload}

\* C5: classify returns Location(name of the first configured location whose
\* qr equals the payload) if there is one and Spool(payload) otherwise, and
\* changes nothing else.
C5_ClassifyFirstMatch ==
    cl_result # None =>
        IF Matches(cl_payload) = {}
        THEN cl_result[1] = <<"spool", cl_payload>>
        ELSE \E i \in Matches(cl_payload) :
                /\ \A j \in Matches(cl_payload) : i <= j
                /\ cl_result[1] = <<"location", cfg_locations[i].name>>

\* a payload configured twice, under different names, has been classified
C5_Witness ==
    /\ cl_result # None
    /\ Cardinality(Matches(cl_payload)) = 2
    /\ cfg_locations[1].name # cfg_locations[2].name

(***************************************************************************)
(* The foreground loop: the scanner queue drained by the poll_q timer      *)
(* callback, with database calls that may raise.                           *)
(***************************************************************************)
\* the database calls of one handler, in call order, that may be the failing
\* one (0: none fails); the longest handler makes seven
FailPoints == 0 .. 7

\* the scanner thread has published its error event and returned
ProducerDone == error_shown \/ \E i \in 1..Len(q) : q[i].kind = "error"

\* QRScanner.run, line 229: self.q.put(("qr", data)); the field seen of a
\* queue entry is history: the time of the put
ScannerPut(payload) ==
    /\ ~ProducerDone
    /\ Len(q) < MaxQueue
    /\ q' = Append(q, [kind |-> "qr", payload |-> payload, seen |-> clock])
    /\ UNCHANGED <<clock, cfg_locations, appvars, dialogs, poll_state, error_shown>>
    /\ scanner_unchanged /\ classifier_unchanged

\* QRScanner.run, lines 205 and 210: self.q.put(("error", ..)) as the only event
ScannerPutError ==
    /\ ~ProducerDone
    /\ q = <<>> /\ current_url = None /\ last_location_scan = None
    /\ q' = Append(q, [kind |-> "error", payload |-> "Cannot open camera",
                       seen |-> clock])
    /\ UNCHANGED <<clock, cfg_locations, appvars, dialogs, poll_state, error_shown>>
    /\ scanner_unchanged /\ classifier_unchanged

\* the timer set by self.after(200, self.poll_q) fires: poll_q starts
PollQBegin ==
    /\ poll_state = "armed"
    /\ poll_state' = "running"
    /\ UNCHANGED <<clock, cfg_locations, appvars, dialogs, q, error_shown>>
    /\ scanner_unchanged /\ classifier_unchanged

\* poll_q, lines 312-316: one iteration of the while loop.  An exception of
\* on_qr is not caught by `except queue.Empty`: it leaves poll_q before line
\* 319, so the timer is not set again.
PollQItem(f) ==
    LET item == Head(q)
        r == IF item.kind = "qr"
             THEN on_qr([Ctx(f) EXCEPT !.obs = item.seen], item.payload, clock)
             ELSE Ctx(f)
    IN  /\ poll_state = "running"
        /\ q # <<>>
        /\ Len(r.logs) <= MaxLogs
        /\ q' = Tail(q)
        /\ Commit(r)
        /\ error_shown' = (error_shown \/ item.kind = "error")
        /\ poll_state' = IF r.raised THEN "dead" ELSE "running"
        /\ UNCHANGED <<clock, cfg_locations, dialogs>>
        /\ scanner_unchanged /\ classifier_unchanged

\* poll_q, lines 317-319: queue.Empty ends the loop and the timer is set again
PollQEnd ==
    /\ poll_state = "running"
    /\ q = <<>>
    /\ poll_state' = "armed"
    /\ UNCHANGED <<clock, cfg_locations, appvars, dialogs, q, error_shown>>
    /\ scanner_unchanged /\ classifier_unchanged

NextLoop ==
    \/ Tick
    \/ \E p \in Payloads : ScannerPut(p)
    \/ ScannerPutError
    \/ PollQBegin
    \/ \E f \in FailPoints : PollQItem(f)
    \/ PollQEnd

SpecLoop == Init /\ [][NextLoop]_vars

\* C9: a persistence failure while a scan event is handled is fatal to that
\* event only: the loop that drains the queue stays scheduled (armed or
\* running), so the events behind the failed one are handled.
C9_PollLoopSurvivesFailure == poll_state \in {"armed", "running"}

\* C17: the pairing compares the times at which the two scans were published
\* by the scanner: a queued scan that completes a move was published at most
\* W after the scan it is paired with.
C17_PairingUsesObservationTime ==
    [][ \A f \in FailPoints :
          (PollQItem(f) /\ Moved) =>
             LET other == IF classify_qr_payload(Head(q).payload)[1] = "spool"
                          THEN seen.location ELSE seen.spool
             IN  Head(q).seen - other <= PairWindow
      ]_vars


(***************************************************************************)
(* The scanner thread QRScanner.run and the foreground call of             *)
(* QRScanner.stop.  Scanner time sc_now is in milliseconds and advances in *)
(* polling intervals; a time.sleep(d) started at t ends at t + d or later. *)
(***************************************************************************)
\* CFG["scan_interval_ms"]
scan_interval_ms == 250
\* time.sleep(1.0)  # debounce
DebounceMs == 1000

\* what pyzbar can decode from a frame: codes[0].data.decode("utf-8")
RawCodes == {"fs://spool/abc-123", "fs://spool/abc-123 ", "fs://loc/dryer"}
\* outcomes of one poll: the frame read failed, no code in the frame, or a code
PollResults == {"fail", "nocode"} \cup RawCodes

\* variant of EmitNow: a single read is enough
EmitNow_first(count) == count >= 1

\* variant of EmitNow: only the second read of a run emits
EmitNow_once(count) == count = 2

\* line 228: if same_count >= 2
EmitNow(count) == count >= 2

\* variant of DebounceEnd: no debounce sleep
DebounceEnd_none(now) == now

\* line 230: time.sleep(1.0) started at now ends at
DebounceEnd(now) == now + DebounceMs

app_unchanged == UNCHANGED <<clock, cfg_locations, appvars, dialogs, poll_state, error_shown>>
history_unchanged ==
    UNCHANGED <<poll_cur, poll_prev, dec_cur, dec_prev, last_emit, after_stop>>

\* scanner time passes: for MaxPolls polling intervals and, once stop() has
\* set the flag, until the sleep in progress is over
ScTick ==
    /\ IF sc_now < MaxPolls * scan_interval_ms THEN TRUE
       ELSE stop_flag /\ sc_pc \in {"sleep", "debounce"} /\ sc_now < sc_wake
    /\ sc_now' = sc_now + scan_interval_ms
    /\ UNCHANGED <<sc_pc, sc_cap, camera, stop_flag, stop_pc, last_val, same_count,
                   sc_wake, q>>
    /\ history_unchanged /\ app_unchanged /\ classifier_unchanged

\* lines 204-206: the decode libraries are missing
ScNoLibs ==
    /\ sc_pc = "start"
    /\ q' = Append(q, [kind |-> "error", payload |-> "Missing OpenCV/pyzbar. Install deps."])
    /\ sc_pc' = "done"
    /\ UNCHANGED <<sc_cap, camera, stop_flag, stop_pc, last_val, same_count, sc_now, sc_wake>>
    /\ history_unchanged /\ app_unchanged /\ classifier_unchanged

\* line 208, right-hand side: cv2.VideoCapture(..) opens the device, or fails to
ScOpen(ok) ==
    /\ sc_pc = "start"
    /\ camera' = IF ok THEN "open" ELSE camera
    /\ sc_pc' = "assign"
    /\ UNCHANGED <<sc_cap, stop_flag, stop_pc, last_val, same_count, sc_now, sc_wake, q>>
    /\ history_unchanged /\ app_unchanged /\ classifier_unchanged

\* line 208: self.cap = <the capture>
ScAssign ==
    /\ sc_pc = "assign"
    /\ sc_cap' = Some("capture")
    /\ sc_pc' = "check"
    /\ UNCHANGED <<camera, stop_flag, stop_pc, last_val, same_count, sc_now, sc_wake, q>>
    /\ history_unchanged /\ app_unchanged /\ classifier_unchanged

\* variant of ScCheck: a capture that is not opened is opened again
ScCheck_retry ==
    /\ sc_pc = "check"
    /\ IF camera # "open"
       THEN /\ q' = Append(q, [kind |-> "error", payload |-> "Cannot open camera"])
            /\ sc_pc' = "start"
            /\ UNCHANGED <<last_val, same_count>>
       ELSE /\ last_val' = None
            /\ same_count' = 0
            /\ sc_pc' = "loop"
            /\ UNCHANGED q
    /\ UNCHANGED <<sc_cap, camera, stop_flag, stop_pc, sc_now, sc_wake>>
    /\ history_unchanged /\ app_unchanged /\ classifier_unchanged

\* lines 209-213: isOpened() test, then last_val = None; same_count = 0
ScCheck ==
    /\ sc_pc = "check"
    /\ IF camera # "open"
       THEN /\ q' = Append(q, [kind |-> "error", payload |-> "Cannot open camera"])
            /\ sc_pc' = "done"
            /\ UNCHANGED <<last_val, same_count>>
       ELSE /\ last_val' = None
            /\ same_count' = 0
            /\ sc_pc' = "loop"
            /\ UNCHANGED q
    /\ UNCHANGED <<sc_cap, camera, stop_flag, stop_pc, sc_now, sc_wake>>
    /\ history_unchanged /\ app_unchanged /\ classifier_unchanged

\* variant of ScLoop: the loop condition does not look at the stop flag
ScLoop_forever ==
    /\ sc_pc = "loop"
    /\ sc_pc' = "read"
    /\ UNCHANGED <<sc_cap, camera, stop_flag, stop_pc, last_val, same_count,
                   sc_now, sc_wake, q>>
    /\ history_unchanged /\ app_unchanged /\ classifier_unchanged

\* line 214: while not self._stop.is_set()
ScLoop ==
    /\ sc_pc = "loop"
    /\ sc_pc' = IF stop_flag THEN "done" ELSE "read"
    /\ UNCHANGED <<sc_cap, camera, stop_flag, stop_pc, last_val, same_count,
                   sc_now, sc_wake, q>>
    /\ history_unchanged /\ app_unchanged /\ classifier_unchanged

\* line 215: ret, frame = self.cap.read() returns; res is what the frame
\* holds.  A released capture reads nothing (ret is False).
ScRead(res) ==
    LET got == IF camera = "open" THEN res ELSE "fail"
    IN  /\ sc_pc = "read"
        /\ poll_prev' = poll_cur
        /\ poll_cur' = got
        /\ sc_pc' = "decode"
        /\ after_stop' = IF stop_flag
                         THEN [after_stop EXCEPT !.reads = @ + 1]
                         ELSE after_stop
        /\ UNCHANGED <<sc_cap, camera, stop_flag, stop_pc, last_val, same_count,
                       sc_now, sc_wake, q, dec_cur, dec_prev, last_emit>>
        /\ app_unchanged /\ classifier_unchanged

\* lines 216-228: the frame just read is decoded and counted; the thread
\* goes to the q.put of line 229 or to a time.sleep(self.interval)
ScDecode ==
    LET data == Strip(poll_cur)
        count == IF Some(data) = last_val THEN same_count + 1 ELSE 1
    IN  /\ sc_pc = "decode"
        /\ IF poll_cur \in {"fail", "nocode"}
           THEN /\ sc_wake' = sc_now + scan_interval_ms
                /\ sc_pc' = "sleep"
                /\ UNCHANGED <<last_val, same_count, dec_cur, dec_prev>>
           ELSE /\ last_val' = Some(data)
                /\ same_count' = count
                /\ dec_prev' = dec_cur
                /\ dec_cur' = Some(data)
                /\ IF EmitNow(count)
                   THEN /\ sc_pc' = "put"
                        /\ UNCHANGED sc_wake
                   ELSE /\ sc_wake' = sc_now + scan_interval_ms
                        /\ sc_pc' = "sleep"
        /\ UNCHANGED <<sc_cap, camera, stop_flag, stop_pc, sc_now, q,
                       poll_cur, poll_prev, last_emit, after_stop>>
        /\ app_unchanged /\ classifier_unchanged

\* lines 229-230: self.q.put(("qr", data)); time.sleep(1.0) starts
ScPut ==
    /\ sc_pc = "put"
    /\ q' = Append(q, [kind |-> "qr", payload |-> last_val[1]])
    /\ last_emit' = Some(sc_now)
    /\ sc_wake' = DebounceEnd(sc_now)
    /\ sc_pc' = "debounce"
    /\ after_stop' = IF stop_flag
                     THEN [after_stop EXCEPT !.emits = @ + 1]
                     ELSE after_stop
    /\ UNCHANGED <<sc_cap, camera, stop_flag, stop_pc, last_val, same_count, sc_now,
                   poll_cur, poll_prev, dec_cur, dec_prev>>
    /\ app_unchanged /\ classifier_unchanged

\* line 230 returns: time.sleep(1.0) is over; line 231 starts
ScDebounced ==
    /\ sc_pc = "debounce"
    /\ sc_now >= sc_wake
    /\ sc_wake' = sc_now + scan_interval_ms
    /\ sc_pc' = "sleep"
    /\ UNCHANGED <<sc_cap, camera, stop_flag, stop_pc, last_val, same_count, sc_now, q>>
    /\ history_unchanged /\ app_unchanged /\ classifier_unchanged

\* lines 217 and 231 return: time.sleep(self.interval) is over
ScSlept ==
    /\ sc_pc = "sleep"
    /\ sc_now >= sc_wake
    /\ sc_pc' = "loop"
    /\ UNCHANGED <<sc_cap, camera, stop_flag, stop_pc, last_val, same_count,
                   sc_now, sc_wake, q>>
    /\ history_unchanged /\ app_unchanged /\ classifier_unchanged

\* QRScanner.stop, line 234: self._stop.set()
StopSet ==
    /\ stop_pc = "idle"
    /\ stop_flag' = TRUE
    /\ stop_pc' = "test"
    /\ UNCHANGED <<sc_pc, sc_cap, camera, last_val, same_count, sc_now, sc_wake, q>>
    /\ history_unchanged /\ app_unchanged /\ classifier_unchanged

\* QRScanner.stop, line 236: if self.cap
StopTest ==
    /\ stop_pc = "test"
    /\ stop_pc' = IF sc_cap # None THEN "release" ELSE "done"
    /\ UNCHANGED <<sc_pc, sc_cap, camera, stop_flag, last_val, same_count,
                   sc_now, sc_wake, q>>
    /\ history_unchanged /\ app_unchanged /\ classifier_unchanged

\* QRScanner.stop, line 237: self.cap.release()
StopRelease ==
    /\ stop_pc = "release"
    /\ camera' = "closed"
    /\ stop_pc' = "done"
    /\ UNCHANGED <<sc_pc, sc_cap, stop_flag, last_val, same_count, sc_now, sc_wake, q>>
    /\ history_unchanged /\ app_unchanged /\ classifier_unchanged

NextScanner ==
    \/ ScTick
    \/ ScNoLibs
    \/ \E ok \in BOOLEAN : ScOpen(ok)
    \/ ScAssign
    \/ ScCheck
    \/ ScLoop
    \/ \E res \in PollResults : ScRead(res)
    \/ ScDecode
    \/ ScPut
    \/ ScDebounced
    \/ ScSlept
    \/ StopSet
    \/ StopTest
    \/ StopRelease

SpecScanner == Init /\ [][NextScanner]_vars

\* this step published a qr event
Emitted == Len(q') > Len(q) /\ q'[Len(q')].kind = "qr"

\* C6 as claimed: every emitted value is the result of the current poll and of
\* the immediately preceding poll.
C6_TwoConsecutivePolls ==
    [][ Emitted => /\ poll_cur' \in RawCodes /\ poll_prev' \in RawCodes
                   /\ Strip(poll_cur') = q'[Len(q')].payload
                   /\ Strip(poll_prev') = q'[Len(q')].payload ]_vars

\* C6 as amended: every emitted value is the stripped result of the current
\* poll and of the latest earlier poll that decoded a code; polls that decode
\* nothing in between do not count.
C6_TwoConsecutiveDecodes ==
    [][ Emitted => /\ poll_cur' \in RawCodes
                   /\ Strip(poll_cur') = q'[Len(q')].payload
                   /\ dec_prev' = Some(q'[Len(q')].payload) ]_vars

\* a value has just been emitted although the poll before decoded nothing
C6_Witness ==
    /\ sc_pc = "debounce"
    /\ last_emit = Some(sc_now)
    /\ poll_prev \in {"fail", "nocode"}

\* C7: after an emission nothing is emitted for the whole debounce time.
C7_CooldownBetweenEmissions ==
    [][ (Emitted /\ last_emit # None) => sc_now - last_emit[1] >= 1000 ]_vars

\* a second value has been emitted, after the cooldown of the first
C7_Witness ==
    /\ Len(q) >= 2
    /\ q[1].kind = "qr" /\ q[2].kind = "qr"
    /\ last_emit # None

\* C10: once stop() has returned and the thread has terminated, no opened
\* capture is left unreleased.
C10_CameraReleasedAfterStop ==
    (stop_pc = "done" /\ sc_pc = "done") => camera = "closed"

\* C11: when the decode libraries are missing or the capture is not opened,
\* the thread publishes one error event as the only event of the queue and
\* terminates; a terminated thread publishes nothing more and does not start
\* again.
C11_CameraUnavailableOneError ==
    [][ /\ (ScNoLibs \/ (ScCheck /\ camera # "open")) =>
              /\ Len(q') = 1 /\ q'[1].kind = "error"
              /\ sc_pc' = "done"
        /\ sc_pc = "done" => (sc_pc' = "done" /\ q' = q)
      ]_vars

\* the device could not be opened (stop() not involved): the thread has
\* terminated and the queue holds the error event only
C11_Witness ==
    /\ sc_pc = "done"
    /\ sc_cap # None /\ camera = "closed" /\ stop_pc = "idle"
    /\ Len(q) = 1 /\ q[1].kind = "error"

\* C16 as claimed: a value is emitted only at the read at which same_count
\* becomes 2; the later reads of the run emit nothing.
C16_EmitsOnlyAtSecondRead ==
    [][ Emitted => same_count' = 2 ]_vars

\* C16 as amended: a read leads to an emission iff its frame decodes to a
\* code and same_count is then 2 or more, so the third, fourth, ... read of a
\* run emits again (each after the debounce sleep of the emission before it);
\* nothing else emits.
C16_EmitsAtEveryRepeatedRead ==
    [][ /\ (sc_pc = "decode" /\ sc_pc' # "decode") =>
              (sc_pc' = "put" <=> (poll_cur \in RawCodes /\ same_count' >= 2))
        /\ Emitted <=> (sc_pc = "put" /\ sc_pc' = "debounce")
      ]_vars

\* the third read of a run has just emitted the value a second time
C16_Witness ==
    /\ sc_pc = "debounce"
    /\ same_count = 3
    /\ last_emit = Some(sc_now)
    /\ Len(q) = 2
    /\ q[1].kind = "qr" /\ q[2] = q[1]

(***************************************************************************)
(* The scanner under fair scheduling: a thread that can take its next step *)
(* takes it (every cap.read() and every time.sleep() returns), and time    *)
(* passes.  Nothing obliges the foreground to call stop().                 *)
(***************************************************************************)
\* one step of the thread QRScanner.run
ScannerStep ==
    \/ ScNoLibs
    \/ \E ok \in BOOLEAN : ScOpen(ok)
    \/ ScAssign
    \/ ScCheck
    \/ ScLoop
    \/ \E res \in PollResults : ScRead(res)
    \/ ScDecode
    \/ ScPut
    \/ ScDebounced
    \/ ScSlept

SpecScannerFair ==
    /\ Init /\ [][NextScanner]_vars
    /\ WF_vars(ScannerStep)
    /\ WF_vars(ScTick)

\* C20: once stop() has set the flag the thread terminates; until then it
\* starts at most one more frame read and publishes at most one more qr event
\* (that of the read in progress or of the one more read).
C20_StopTerminatesScanner ==
    /\ stop_flag ~> (sc_pc = "done")
    /\ [](after_stop.reads <= 1 /\ after_stop.emits <= 1)

\* the flag was set between the loop test and the frame read: the thread
\* made that one read, published its value, slept and terminated
C20_Witness ==
    /\ stop_flag
    /\ sc_pc = "done"
    /\ after_stop = [reads |-> 1, emits |-> 1]
    /\ q # <<>>
    /\ q[Len(q)].kind = "qr"

=============================================================================
